---- MODULE Spec2Model ----
(***************************************************************************)
(* Model of the cyber-health-check backend: the four scanners              *)
(* (check_ssl, scan_ports, scan_subdomains, check_headers) as functions of *)
(* the outcomes of their network probes, and the /api/scan orchestrator    *)
(* that awaits them one after the other.                                   *)
(*                                                                         *)
(* Strings are Python strings; an f-string is the concatenation of its     *)
(* parts, str(int) is ToString.  The en dash of the risk texts is written  *)
(* "-".                                                                    *)
(***************************************************************************)
EXTENDS Integers, Sequences, FiniteSets, TLC

VARIABLES
    pc,            \* position of the scan() coroutine (main.py:92-138)
    domain,        \* request.domain
    scans,         \* request.scans, as the set of its elements
    results,       \* the dict `results` of scan()
    response,      \* what the caller received: "none", "ok" or "error400"
    invoked,       \* the schedulers scan() has awaited so far
    raised,        \* the scheduler whose await raised, or "none"
    connAttempts,  \* calls of socket.create_connection made by check_ssl
    call,          \* a single scheduler call: its kind and probe outcomes
    checks,        \* the list that call returned
    callpc,        \* "idle", "waiting", "returned", "scored" or "rescored"
    tasks,         \* the results of asyncio.gather, one slot per task
    settled,       \* the targets whose probe returned True, as they completed
    score,         \* what calculate_score returned, -1 before it is called
    report         \* what the caller of /api/report received

vars == <<pc, domain, scans, results, response, invoked, raised,
          connAttempts, call, checks, callpc, tasks, settled, score, report>>

gatherVars == <<tasks, settled>>

reportVars == <<score, report>>

(***************************************************************************)
(* Findings                                                                *)
(***************************************************************************)

\* One entry of a scanner's `checks` list: the dict literal with its seven keys.
Finding(name, status, where, description, risk, mitigation, details) ==
    [name |-> name, status |-> status, where |-> where,
     description |-> description, risk |-> risk, mitigation |-> mitigation,
     details |-> details]

\* ', '.join(parts)
RECURSIVE Join(_)
Join(parts) ==
    IF Len(parts) = 0 THEN ""
    ELSE IF Len(parts) = 1 THEN parts[1]
    ELSE parts[1] \o ", " \o Join(Tail(parts))

\* [f(x) for x in s]
MapSeq(f(_), s) == [i \in 1..Len(s) |-> f(s[i])]

\* `keyword in s` for two strings
Contains(s, keyword) ==
    \E i \in 1..(Len(s) - Len(keyword) + 1) :
        SubSeq(s, i, i + Len(keyword) - 1) = keyword

Kinds == {"ssl", "ports", "subdomains", "headers"}

(***************************************************************************)
(* check_ssl  (scanners/ssl_checker.py)                                    *)
(*                                                                         *)
(* net.ctx    "ok" | "error"   ssl.create_default_context()                *)
(* net.conn   "ok" | "timeout" | "sslerror" | "error"                      *)
(*            create_connection + wrap_socket: socket.timeout,             *)
(*            ssl.SSLError, any other exception (refused, DNS failure)     *)
(* net.cert   getpeercert(): [kind: "none" | "empty" | "dict", issuer,     *)
(*            hasNotAfter]                                                 *)
(* net.cipher ssock.cipher()[0], "" when cipher() is None                  *)
(* net.remaining  seconds from now (UTC) to the certificate's notAfter     *)
(* net.tz     the server's local UTC offset in seconds: notAfter is parsed *)
(*            as a naive GMT time, datetime.now() is naive local time      *)
(* net.err    str(e) of the exception                                      *)
(***************************************************************************)

SecondsPerDay == 86400
ExpiryWarningDays == 30

\* (not_after - datetime.now()).days : timedelta.days is the floor
days_until_expiry(remaining, tz) == (remaining - tz) \div SecondsPerDay

\* `if cert:` - None and the empty dict are falsy
CertTruthy(cert) == cert.kind = "dict"

SslPresence(cert) ==
    IF CertTruthy(cert)
    THEN <<Finding("SSL Certificate Presence", "pass", "TLS Handshake",
                   "Valid SSL/TLS certificate detected.",
                   "Low - Encrypted communication is properly configured.",
                   "No action required.",
                   "Issuer: " \o cert.issuer)>>
    ELSE <<Finding("SSL Certificate Presence", "fail", "TLS Handshake",
                   "No valid SSL certificate found.",
                   "High - Traffic can be intercepted (MITM attacks).",
                   "Install a valid SSL/TLS certificate from a trusted CA.",
                   "Certificate not returned during handshake.")>>

\* SslExpiration with the pass boundary inclusive: `>= 30`
SslExpiration_Inclusive(cert, remaining, tz) ==
    IF CertTruthy(cert) /\ cert.hasNotAfter
    THEN LET days == days_until_expiry(remaining, tz) IN
         IF days >= ExpiryWarningDays
         THEN <<Finding("Certificate Expiration", "pass", "Certificate Metadata",
                        "Certificate expiration is not imminent.",
                        "Low - Certificate valid for extended period.",
                        "Monitor expiration date periodically.",
                        "Expires in " \o ToString(days) \o " days")>>
         ELSE IF days > 0
         THEN <<Finding("Certificate Expiration", "warning", "Certificate Metadata",
                        "Certificate will expire soon.",
                        "Medium - Service disruption risk if not renewed.",
                        "Renew the certificate before expiration.",
                        "Expires in " \o ToString(days) \o " days")>>
         ELSE <<Finding("Certificate Expiration", "fail", "Certificate Metadata",
                        "Certificate has expired.",
                        "High - Browsers will block access and users are exposed.",
                        "Immediately renew and install a valid certificate.",
                        "Expired " \o ToString(-days) \o " days ago")>>
    ELSE <<>>

SslExpiration(cert, remaining, tz) ==
    IF CertTruthy(cert) /\ cert.hasNotAfter
    THEN LET days == days_until_expiry(remaining, tz) IN
         IF days > ExpiryWarningDays
         THEN <<Finding("Certificate Expiration", "pass", "Certificate Metadata",
                        "Certificate expiration is not imminent.",
                        "Low - Certificate valid for extended period.",
                        "Monitor expiration date periodically.",
                        "Expires in " \o ToString(days) \o " days")>>
         ELSE IF days > 0
         THEN <<Finding("Certificate Expiration", "warning", "Certificate Metadata",
                        "Certificate will expire soon.",
                        "Medium - Service disruption risk if not renewed.",
                        "Renew the certificate before expiration.",
                        "Expires in " \o ToString(days) \o " days")>>
         ELSE <<Finding("Certificate Expiration", "fail", "Certificate Metadata",
                        "Certificate has expired.",
                        "High - Browsers will block access and users are exposed.",
                        "Immediately renew and install a valid certificate.",
                        "Expired " \o ToString(-days) \o " days ago")>>
    ELSE <<>>

\* SslCipher emitting its Finding for TLS 1.3 suite names only
SslCipher_Tls13Only(cipher) ==
    IF cipher # "" /\ Contains(cipher, "TLS_")
    THEN <<Finding("TLS Cipher Strength", "pass", "TLS Negotiation",
                   "Encryption cipher successfully negotiated.",
                   "Low - Secure cipher in use.",
                   "Ensure weak ciphers are disabled in server configuration.",
                   "Cipher: " \o cipher)>>
    ELSE <<>>

SslCipher(cipher) ==
    IF cipher # ""
    THEN <<Finding("TLS Cipher Strength", "pass", "TLS Negotiation",
                   "Encryption cipher successfully negotiated.",
                   "Low - Secure cipher in use.",
                   "Ensure weak ciphers are disabled in server configuration.",
                   "Cipher: " \o cipher)>>
    ELSE <<>>

SslTimeout ==
    Finding("HTTPS Connectivity", "fail", "Network Connection",
            "Failed to connect to HTTPS port (timeout).",
            "High - HTTPS service may be unavailable.",
            "Ensure port 443 is open and server is reachable.",
            "Connection attempt timed out.")

SslHandshakeError(err) ==
    Finding("SSL Handshake Error", "fail", "TLS Handshake",
            "SSL certificate error occurred.",
            "High - Misconfigured or invalid certificate.",
            "Verify certificate chain and server configuration.",
            err)

SslVerificationFailure(err) ==
    Finding("SSL Verification Failure", "fail", "TLS Verification",
            "Failed to verify SSL certificate.",
            "High - Certificate validation could not be completed.",
            "Check server TLS configuration and certificate setup.",
            err)

SslCheckFailure(err) ==
    Finding("SSL Check Failure", "fail", "SSL Module",
            "SSL check process failed unexpectedly.",
            "Unknown - Scan could not complete.",
            "Review server logs and scanning logic.",
            err)

\* socket.create_connection is called once, after the context was built
SslConnections(net) == IF net.ctx = "ok" THEN 1 ELSE 0

\* check_ssl reporting the generic exception as a warning, as check_headers does
check_ssl_WarnOnError(dom, net) ==
    IF net.ctx # "ok" THEN <<SslCheckFailure(net.err)>>
    ELSE IF net.conn = "timeout" THEN <<SslTimeout>>
    ELSE IF net.conn = "sslerror" THEN <<SslHandshakeError(net.err)>>
    ELSE IF net.conn # "ok"
    THEN <<[SslVerificationFailure(net.err) EXCEPT !.status = "warning"]>>
    ELSE SslPresence(net.cert)
         \o SslExpiration(net.cert, net.remaining, net.tz)
         \o SslCipher(net.cipher)

check_ssl(dom, net) ==
    IF net.ctx # "ok" THEN <<SslCheckFailure(net.err)>>
    ELSE IF net.conn = "timeout" THEN <<SslTimeout>>
    ELSE IF net.conn = "sslerror" THEN <<SslHandshakeError(net.err)>>
    ELSE IF net.conn # "ok" THEN <<SslVerificationFailure(net.err)>>
    ELSE SslPresence(net.cert)
         \o SslExpiration(net.cert, net.remaining, net.tz)
         \o SslCipher(net.cipher)

(***************************************************************************)
(* scan_ports  (scanners/port_scanner.py)                                  *)
(*                                                                         *)
(* probes[p] is how the connection attempt to port p ended: "open",        *)
(* "refused", "timeout", "oserror", or "exception" (an exception type that *)
(* check_port does not catch; gather(return_exceptions=True) returns it as *)
(* the result).                                                            *)
(***************************************************************************)

\* COMMON_PORTS.keys(), in insertion order
PortCatalog ==
    <<21, 22, 25, 53, 80, 110, 143, 443, 465, 587, 993, 995,
      3306, 5432, 5984, 6379, 27017, 8080, 8443>>

PortNames ==
    <<"FTP", "SSH", "SMTP", "DNS", "HTTP", "POP3", "IMAP", "HTTPS", "SMTPS",
      "SMTP", "IMAPS", "POP3S", "MySQL", "PostgreSQL", "CouchDB", "Redis",
      "MongoDB", "HTTP-Alt", "HTTPS-Alt">>

Ports == {PortCatalog[i] : i \in 1..Len(PortCatalog)}

\* COMMON_PORTS.get(p, f"Port {p}")
COMMON_PORTS_get(p) ==
    IF p \in Ports
    THEN PortNames[CHOOSE i \in 1..Len(PortCatalog) : PortCatalog[i] = p]
    ELSE "Port " \o ToString(p)

ProbeOutcomes == {"open", "refused", "timeout", "oserror", "exception"}

\* what gather() holds for one check_port task: True, False, or the exception
check_port(outcome) ==
    IF outcome = "open" THEN "True"
    ELSE IF outcome \in {"refused", "timeout", "oserror"} THEN "False"
    ELSE "Exception"

\* `if result:` - an exception object is truthy
IsTrue_Truthy(result) == result # "False"

\* isinstance(result, bool) and result
IsTrue(result) == result = "True"

\* the loop over zip(COMMON_PORTS.items(), results)
OpenPorts(probes) ==
    SelectSeq(PortCatalog, LAMBDA p : IsTrue(check_port(probes[p])))

InSeq(x, s) == \E i \in 1..Len(s) : s[i] = x

ExpectedPorts == {80, 443}

\* UnexpectedPorts with 8080 taken for an expected port
UnexpectedPorts_Alt8080(open_ports) ==
    SelectSeq(open_ports, LAMBDA p : p \notin (ExpectedPorts \cup {8080}))

UnexpectedPorts(open_ports) ==
    SelectSeq(open_ports, LAMBDA p : p \notin ExpectedPorts)

PortExposure ==
    Finding("Port Exposure", "pass", "Network Layer",
            "No common ports are exposed.",
            "Low - No detectable external services exposed.",
            "Continue maintaining firewall restrictions.",
            "No ports responded to connection attempts.")

UnexpectedOpenPorts(unexpected_ports) ==
    Finding("Unexpected Open Ports", "warning", "Network Layer",
            "Unexpected services are exposed to the internet.",
            "Medium - Exposed services increase attack surface.",
            "Close unused ports via firewall or restrict access.",
            "Ports: " \o Join(MapSeq(ToString, unexpected_ports)) \o " ("
                \o Join(MapSeq(COMMON_PORTS_get, unexpected_ports)) \o ")")

HttpsNotEnabled ==
    Finding("HTTPS Not Enabled", "warning", "Transport Layer",
            "HTTP is available but HTTPS is not detected.",
            "High - Traffic may be transmitted unencrypted.",
            "Enable HTTPS with a valid SSL/TLS certificate.",
            "Port 80 open, Port 443 closed.")

HttpsSupport ==
    Finding("HTTPS Support", "pass", "Transport Layer",
            "HTTPS port is open and accessible.",
            "Low - Encrypted communication available.",
            "Ensure HTTP traffic redirects to HTTPS.",
            "Port 443 is open.")

PortScanFailure(err) ==
    Finding("Port Scan Failure", "fail", "Port Scanner Module",
            "Port scanning encountered an issue.",
            "Unknown - Scan incomplete.",
            "Review scanner configuration and network reachability.",
            err)

\* PortPolicy with the two HTTPS judgments as independent `if`s on 80 and 443
PortPolicy_Independent(open_ports) ==
    IF Len(open_ports) = 0 THEN <<PortExposure>>
    ELSE LET unexpected_ports == UnexpectedPorts(open_ports) IN
         (IF Len(unexpected_ports) > 0
          THEN <<UnexpectedOpenPorts(unexpected_ports)>> ELSE <<>>)
         \o (IF InSeq(80, open_ports) THEN <<HttpsNotEnabled>> ELSE <<>>)
         \o (IF InSeq(443, open_ports) THEN <<HttpsSupport>> ELSE <<>>)

\* the policy evaluated on open_ports once gather() has returned
PortPolicy(open_ports) ==
    IF Len(open_ports) = 0 THEN <<PortExposure>>
    ELSE LET unexpected_ports == UnexpectedPorts(open_ports) IN
         (IF Len(unexpected_ports) > 0
          THEN <<UnexpectedOpenPorts(unexpected_ports)>> ELSE <<>>)
         \o (IF InSeq(80, open_ports) /\ ~InSeq(443, open_ports)
             THEN <<HttpsNotEnabled>>
             ELSE IF InSeq(443, open_ports) THEN <<HttpsSupport>>
             ELSE <<>>)

\* net.fault = "body": an exception raised inside the try block, which the
\* outer handler turns into the failure Finding (checks is still empty then)
scan_ports(dom, net) ==
    IF net.fault = "body" THEN <<PortScanFailure(net.err)>>
    ELSE PortPolicy(OpenPorts(net.probes))

(***************************************************************************)
(* scan_subdomains  (scanners/subdomain_scanner.py)                        *)
(*                                                                         *)
(* probes[sub] is how the DNS lookup of label sub ended: "resolved",       *)
(* "timeout" or "error".  resolve_domain catches every Exception, so the   *)
(* gathered results are all booleans.                                      *)
(***************************************************************************)

COMMON_SUBDOMAINS ==
    <<"www", "mail", "ftp", "localhost", "webmail", "smtp", "pop", "ns",
      "ns1", "ns2", "ns3", "ns4", "ns5", "ns0", "m", "mail2", "test",
      "portal", "admin", "api", "dev", "staging", "beta", "demo", "app",
      "apps", "blog", "shop", "forum", "support", "help", "docs", "static",
      "media", "images", "cdn", "download", "downloads", "secure", "ssl",
      "vpn", "backup", "server", "services", "status", "stats", "analytics",
      "monitoring", "logs", "git", "github", "gitlab", "jenkins", "ci",
      "build", "deploy">>

Labels == {COMMON_SUBDOMAINS[i] : i \in 1..Len(COMMON_SUBDOMAINS)}

DnsOutcomes == {"resolved", "timeout", "error"}

resolve_domain(outcome) == IF outcome = "resolved" THEN "True" ELSE "False"

\* f"{sub}.{domain}"
SubdomainName(sub, dom) == sub \o "." \o dom

\* the loop over zip(subdomains_to_check, results)
FoundSubdomains(dom, probes) ==
    MapSeq(LAMBDA sub : SubdomainName(sub, dom),
           SelectSeq(COMMON_SUBDOMAINS,
                     LAMBDA sub : IsTrue(resolve_domain(probes[sub]))))

ExpectedSubdomains(dom) ==
    {SubdomainName("www", dom), SubdomainName("mail", dom),
     SubdomainName("ftp", dom)}

\* the keyword list without its last entry
DevKeywords_NoBeta == {"dev", "staging", "test"}

DevKeywords == {"dev", "staging", "test", "beta"}

DevSubdomains(found_subdomains) ==
    SelectSeq(found_subdomains,
              LAMBDA s : \E keyword \in DevKeywords : Contains(s, keyword))

DiscoveryListed == 5

\* the whole list instead of its first five names
FirstListed_All(found_subdomains) == found_subdomains

\* found_subdomains[:5]
FirstListed(found_subdomains) ==
    SubSeq(found_subdomains, 1,
           IF Len(found_subdomains) < DiscoveryListed
           THEN Len(found_subdomains) ELSE DiscoveryListed)

SubdomainEnumeration ==
    Finding("Subdomain Enumeration", "pass", "DNS Resolution",
            "No common subdomains discovered.",
            "Low - Reduced attack surface.",
            "Continue monitoring DNS records.",
            "No known patterns resolved.")

SubdomainDiscovery(dom, found_subdomains) ==
    LET unexpected == SelectSeq(found_subdomains,
                                LAMBDA s : s \notin ExpectedSubdomains(dom))
    IN  Finding("Subdomain Discovery",
                IF Len(unexpected) > 0 THEN "warning" ELSE "pass",
                "DNS Resolution",
                ToString(Len(found_subdomains)) \o " subdomain(s) discovered.",
                "Medium - Each exposed subdomain increases attack surface.",
                "Ensure unused subdomains are removed and active ones are secured.",
                "Found: " \o Join(FirstListed(found_subdomains))
                    \o (IF Len(found_subdomains) > DiscoveryListed
                        THEN "..." ELSE ""))

DevelopmentExposure(dev_subdomains) ==
    Finding("Development Environment Exposure", "warning", "DNS Resolution",
            "Development or staging environments detected.",
            "High - Dev environments often lack proper security controls.",
            "Restrict access via IP whitelisting or authentication.",
            "Found: " \o Join(dev_subdomains))

SubdomainScanFailure(err) ==
    Finding("Subdomain Scan Failure", "fail", "Subdomain Scanner Module",
            "Subdomain scanning encountered an unexpected error.",
            "Unknown - Scan incomplete.",
            "Review DNS configuration and scanner logs.",
            err)

SubdomainPolicy(dom, found_subdomains) ==
    IF Len(found_subdomains) = 0 THEN <<SubdomainEnumeration>>
    ELSE LET dev_subdomains == DevSubdomains(found_subdomains) IN
         <<SubdomainDiscovery(dom, found_subdomains)>>
         \o (IF Len(dev_subdomains) > 0
             THEN <<DevelopmentExposure(dev_subdomains)>> ELSE <<>>)

scan_subdomains(dom, net) ==
    IF net.fault = "body" THEN <<SubdomainScanFailure(net.err)>>
    ELSE SubdomainPolicy(dom, FoundSubdomains(dom, net.probes))

(***************************************************************************)
(* check_headers  (scanners/header_checker.py)                             *)
(*                                                                         *)
(* net.session "ok" | "error"   aiohttp.ClientSession() / its exit         *)
(* net.get     "ok" | "sslerror" | "timeout" | "error"   session.get(...)  *)
(* net.status  response.status                                             *)
(* net.headers response.headers: a sequence of <<name, value>> pairs       *)
(***************************************************************************)

\* SECURITY_HEADERS, in insertion order: name, description, risk, mitigation
SECURITY_HEADERS ==
    << <<"Strict-Transport-Security", "Enforces HTTPS connections.",
         "Without HSTS, users are vulnerable to downgrade attacks.",
         "Add Strict-Transport-Security header with proper max-age.">>,
       <<"X-Content-Type-Options", "Prevents MIME-type sniffing.",
         "Attackers may exploit MIME sniffing to execute malicious files.",
         "Add X-Content-Type-Options: nosniff.">>,
       <<"X-Frame-Options", "Prevents clickjacking attacks.",
         "Site may be embedded in malicious iframes.",
         "Set X-Frame-Options to DENY or SAMEORIGIN.">>,
       <<"Content-Security-Policy", "Mitigates XSS attacks.",
         "Without CSP, injection attacks become easier.",
         "Define a strict Content-Security-Policy header.">>,
       <<"Referrer-Policy", "Controls referrer information sharing.",
         "Sensitive URL data may leak to external sites.",
         "Set Referrer-Policy to strict-origin-when-cross-origin.">>,
       <<"Permissions-Policy", "Restricts browser feature usage.",
         "Browser APIs may be abused by malicious scripts.",
         "Define a restrictive Permissions-Policy header.">> >>

UpperLetters == "ABCDEFGHIJKLMNOPQRSTUVWXYZ"
LowerLetters == "abcdefghijklmnopqrstuvwxyz"

UpperSet == {SubSeq(UpperLetters, i, i) : i \in 1..Len(UpperLetters)}

LowerOf ==
    [c \in UpperSet |->
        LET i == CHOOSE j \in 1..Len(UpperLetters) : SubSeq(UpperLetters, j, j) = c
        IN  SubSeq(LowerLetters, i, i)]

\* str.lower(), one character at a time
RECURSIVE lower(_)
lower(s) ==
    IF Len(s) = 0 THEN ""
    ELSE LET c == SubSeq(s, 1, 1)
         IN  (IF c \in UpperSet THEN LowerOf[c] ELSE c)
             \o lower(SubSeq(s, 2, Len(s)))

\* the membership test without the two lower() calls
HeaderPresent_CaseSensitive(header, headers) ==
    \E i \in 1..Len(headers) : headers[i][1] = header

\* header.lower() in {h.lower() for h in headers.keys()}
HeaderPresent(header, headers) ==
    \E i \in 1..Len(headers) : lower(headers[i][1]) = lower(header)

\* headers.get(header) on the case-insensitive multidict: the first match
HeaderValue(header, headers) ==
    LET i == CHOOSE j \in 1..Len(headers) :
                 /\ lower(headers[j][1]) = lower(header)
                 /\ \A k \in 1..(j - 1) : lower(headers[k][1]) # lower(header)
    IN  headers[i][2]

HeaderCheck(entry, headers) ==
    IF HeaderPresent(entry[1], headers)
    THEN Finding(entry[1] \o " Header", "pass", "HTTP Response Headers",
                 entry[2], "Low - Header properly configured.",
                 "No action required.",
                 "Header value: " \o HeaderValue(entry[1], headers))
    ELSE Finding(entry[1] \o " Header Missing", "fail", "HTTP Response Headers",
                 entry[2], entry[3], entry[4],
                 "Header not found in response.")

\* StatusCheck taking every 2xx status for a success
StatusCheck_Any2xx(status) ==
    IF 200 <= status /\ status < 300
    THEN Finding("Website Accessibility", "pass", "HTTP Response",
                 "Website is accessible and responding.",
                 "Low - Server responding normally.",
                 "No action required.",
                 "HTTP Status: " \o ToString(status))
    ELSE IF 300 <= status /\ status < 400
    THEN Finding("Website Redirect", "warning", "HTTP Response",
                 "Website is redirecting.",
                 "Medium - Redirect chains may impact SEO/security.",
                 "Review redirect configuration.",
                 "HTTP Status: " \o ToString(status))
    ELSE Finding("Website Accessibility Issue", "fail", "HTTP Response",
                 "Unexpected HTTP response status.",
                 "High - Site may not be functioning correctly.",
                 "Investigate server configuration.",
                 "HTTP Status: " \o ToString(status))

StatusCheck(status) ==
    IF status = 200
    THEN Finding("Website Accessibility", "pass", "HTTP Response",
                 "Website is accessible and responding.",
                 "Low - Server responding normally.",
                 "No action required.",
                 "HTTP Status: " \o ToString(status))
    ELSE IF 300 <= status /\ status < 400
    THEN Finding("Website Redirect", "warning", "HTTP Response",
                 "Website is redirecting.",
                 "Medium - Redirect chains may impact SEO/security.",
                 "Review redirect configuration.",
                 "HTTP Status: " \o ToString(status))
    ELSE Finding("Website Accessibility Issue", "fail", "HTTP Response",
                 "Unexpected HTTP response status.",
                 "High - Site may not be functioning correctly.",
                 "Investigate server configuration.",
                 "HTTP Status: " \o ToString(status))

HeaderSslError(err) ==
    Finding("Header Check SSL Error", "warning", "HTTP Request",
            "SSL error occurred while fetching headers.",
            "Medium - Certificate misconfiguration may exist.",
            "Verify TLS certificate configuration.",
            err)

\* the timeout Finding with a status outside the three values
HeaderTimeout_StatusError ==
    Finding("Header Check Timeout", "error", "Network Connection",
            "Request timeout while checking headers.",
            "High - Server may be unreachable or slow.",
            "Ensure server availability and performance.",
            "Request exceeded timeout threshold.")

HeaderTimeout ==
    Finding("Header Check Timeout", "fail", "Network Connection",
            "Request timeout while checking headers.",
            "High - Server may be unreachable or slow.",
            "Ensure server availability and performance.",
            "Request exceeded timeout threshold.")

HeaderError(err) ==
    Finding("Header Check Error", "warning", "Header Scanner",
            "Unexpected error while checking headers.",
            "Unknown - Header analysis incomplete.",
            "Review scanner logs.",
            err)

HeaderModuleFailure(err) ==
    Finding("Header Module Failure", "fail", "Scanner Module",
            "Header checking module failed unexpectedly.",
            "Unknown - Scan could not complete.",
            "Investigate backend scanner configuration.",
            err)

\* check_headers with the two warning handlers swallowing the exception
check_headers_Swallow(url, net) ==
    IF net.session # "ok" THEN <<HeaderModuleFailure(net.err)>>
    ELSE IF net.get = "sslerror" THEN <<>>
    ELSE IF net.get = "timeout" THEN <<HeaderTimeout>>
    ELSE IF net.get # "ok" THEN <<>>
    ELSE MapSeq(LAMBDA entry : HeaderCheck(entry, net.headers), SECURITY_HEADERS)
         \o <<StatusCheck(net.status)>>

\* check_headers without the asyncio.TimeoutError handler: the generic one
\* catches the timeout
check_headers_NoTimeoutHandler(url, net) ==
    IF net.session # "ok" THEN <<HeaderModuleFailure(net.err)>>
    ELSE IF net.get = "sslerror" THEN <<HeaderSslError(net.err)>>
    ELSE IF net.get # "ok" THEN <<HeaderError(net.err)>>
    ELSE MapSeq(LAMBDA entry : HeaderCheck(entry, net.headers), SECURITY_HEADERS)
         \o <<StatusCheck(net.status)>>

check_headers(url, net) ==
    IF net.session # "ok" THEN <<HeaderModuleFailure(net.err)>>
    ELSE IF net.get = "sslerror" THEN <<HeaderSslError(net.err)>>
    ELSE IF net.get = "timeout" THEN <<HeaderTimeout>>
    ELSE IF net.get # "ok" THEN <<HeaderError(net.err)>>
    ELSE MapSeq(LAMBDA entry : HeaderCheck(entry, net.headers), SECURITY_HEADERS)
         \o <<StatusCheck(net.status)>>

(***************************************************************************)
(* The network: what the probes of one scheduler call can meet             *)
(***************************************************************************)

MaxDays == 31        \* certificates expire at most this many days from now
MaxPastDays == 2     \* or expired at most this many days ago
MaxOpen == 3         \* at most this many catalog ports accept a connection
MaxFound == 2        \* at most this many catalog labels resolve, or
MaxZone == 7         \* the first labels of the catalog up to this many
MaxBeside == 1       \* targets answering beside one probe that fails its own way

Domains == {"", "example.com", "example.test"}

\* the subsets of S with at most k elements
RECURSIVE SubsetsUpTo(_, _)
SubsetsUpTo(S, k) ==
    IF k = 0 THEN {{}}
    ELSE LET smaller == SubsetsUpTo(S, k - 1)
         IN  smaller \cup {T \cup {x} : T \in smaller, x \in S}

\* seconds to notAfter: whole days, and a second, half a day and a day less
\* one second past them
RemainingSecs ==
    {d * SecondsPerDay + s : d \in (-MaxPastDays)..MaxDays,
                             s \in {0, 1, 43200, 86399}}

\* UTC-12, UTC, UTC+14
TzOffsets == {-43200, 0, 50400}

Issuers == {"((('organizationName', 'Example CA'),),)"}
Ciphers == {"TLS_AES_256_GCM_SHA384", "ECDHE-RSA-AES128-GCM-SHA256"}

SslNet(ctx, conn, remaining, tz, cipher, err) ==
    [ctx |-> ctx, conn |-> conn,
     cert |-> [kind |-> "dict", issuer |-> CHOOSE i \in Issuers : TRUE,
               hasNotAfter |-> TRUE],
     cipher |-> cipher, remaining |-> remaining, tz |-> tz, err |-> err]

\* A handshake that succeeds under ssl.create_default_context() (CERT_REQUIRED,
\* check_hostname) has validated the peer certificate: getpeercert() is then
\* the decoded certificate, which carries notAfter, and cipher() is a tuple.
SslSuccessNets ==
    {SslNet("ok", "ok", r, tz, c, "") :
        r \in RemainingSecs, tz \in TzOffsets, c \in Ciphers}

SslFailureNets ==
    {SslNet("ok", "timeout", 0, 0, "", "timed out"),
     SslNet("ok", "sslerror", 0, 0, "",
            "[SSL: CERTIFICATE_VERIFY_FAILED] certificate verify failed"),
     SslNet("ok", "error", 0, 0, "", "[Errno 111] Connection refused"),
     SslNet("ok", "error", 0, 0, "", "[Errno -2] Name or service not known")}

SslContextNets ==
    {SslNet("error", "ok", 0, 0, "", "unable to load trusted certificates")}

SslNets == SslSuccessNets \cup SslFailureNets \cup SslContextNets

PortProbes(open, closedAs) ==
    [p \in Ports |-> IF p \in open THEN "open" ELSE closedAs]

PortNet(fault, open, closedAs, err) ==
    [fault |-> fault, probes |-> PortProbes(open, closedAs), err |-> err]

\* one probe ends as `mode` while the other closed ports refuse
PortNetWithFailure(open, victim, mode) ==
    [fault |-> "none",
     probes |-> [p \in Ports |-> IF p = victim THEN mode
                                 ELSE IF p \in open THEN "open" ELSE "refused"],
     err |-> ""]

PlainPortNets ==
    {PortNet("none", open, closedAs, "") :
        open \in SubsetsUpTo(Ports, MaxOpen),
        closedAs \in ProbeOutcomes \ {"open"}}

PortFailureNets ==
    {PortNetWithFailure(open, victim, mode) :
        open \in SubsetsUpTo(Ports, MaxBeside), victim \in Ports,
        mode \in {"timeout", "oserror", "exception"}}

PortNets ==
    PlainPortNets
    \cup PortFailureNets
    \cup {PortNet("body", {}, "refused", "internal error")}

SubdomainProbes(found, failAs) ==
    [sub \in Labels |-> IF sub \in found THEN "resolved" ELSE failAs]

SubdomainNet(fault, found, failAs, err) ==
    [fault |-> fault, probes |-> SubdomainProbes(found, failAs), err |-> err]

\* the labels a zone resolves: a few of them, or the first n of the catalog
\* and at most one more, or all of them (a wildcard record)
ResolvingSets ==
    SubsetsUpTo(Labels, MaxFound)
    \cup {{COMMON_SUBDOMAINS[i] : i \in 1..n} \cup extra :
             n \in 0..MaxZone, extra \in SubsetsUpTo(Labels, 1)}
    \cup {Labels}

\* one lookup ends as `mode` while the other failing lookups end as `failAs`
SubdomainNetWithFailure(found, victim, mode, failAs) ==
    [fault |-> "none",
     probes |-> [sub \in Labels |-> IF sub = victim THEN mode
                                    ELSE IF sub \in found THEN "resolved"
                                    ELSE failAs],
     err |-> ""]

PlainSubdomainNets ==
    {SubdomainNet("none", found, failAs, "") :
        found \in ResolvingSets,
        failAs \in DnsOutcomes \ {"resolved"}}

SubdomainFailureNets ==
    {SubdomainNetWithFailure(found, victim, mode, failAs) :
        found \in SubsetsUpTo({COMMON_SUBDOMAINS[i] : i \in 1..MaxZone},
                              MaxBeside),
        victim \in Labels,
        mode \in DnsOutcomes \ {"resolved"},
        failAs \in DnsOutcomes \ {"resolved"}}

SubdomainNets ==
    PlainSubdomainNets
    \cup SubdomainFailureNets
    \cup {SubdomainNet("body", {}, "error", "internal error")}

HeaderNames == {SECURITY_HEADERS[i][1] : i \in 1..Len(SECURITY_HEADERS)}

SampleValue(name) ==
    IF name = "Strict-Transport-Security" THEN "max-age=31536000"
    ELSE IF name = "X-Content-Type-Options" THEN "nosniff"
    ELSE IF name = "X-Frame-Options" THEN "DENY"
    ELSE IF name = "Content-Security-Policy" THEN "default-src 'self'"
    ELSE IF name = "Referrer-Policy" THEN "no-referrer"
    ELSE "geolocation=()"

\* the response headers of a server that sends `present`, spelled as in the
\* catalog or in lower case, after its Content-Type
ResponseHeaders(present, spelling) ==
    <<(<<"Content-Type", "text/html">>)>>
    \o MapSeq(LAMBDA entry :
                  <<IF spelling = "lower" THEN lower(entry[1]) ELSE entry[1],
                    SampleValue(entry[1])>>,
              SelectSeq(SECURITY_HEADERS, LAMBDA entry : entry[1] \in present))

StatusCodes == {200, 201, 204, 299, 300, 301, 302, 399, 400, 403, 404, 500, 503}

HeaderNet(session, get, status, headers, err) ==
    [session |-> session, get |-> get, status |-> status,
     headers |-> headers, err |-> err]

HeaderSuccessNets ==
    {HeaderNet("ok", "ok", st, ResponseHeaders(present, spelling), "") :
        st \in StatusCodes, present \in SUBSET HeaderNames,
        spelling \in {"catalog", "lower"}}

HeaderFailureNets ==
    {HeaderNet("ok", "sslerror", 0, <<>>, "certificate verify failed"),
     HeaderNet("ok", "timeout", 0, <<>>, ""),
     HeaderNet("ok", "error", 0, <<>>, "Cannot connect to host"),
     HeaderNet("error", "ok", 0, <<>>, "session failure")}

HeaderNets == HeaderSuccessNets \cup HeaderFailureNets

(***************************************************************************)
(* One scheduler call on its own: SpecCall                                 *)
(***************************************************************************)

NoCall == [kind |-> "none"]

orchVars == <<pc, scans, results, response, invoked, raised>>

CallInit ==
    /\ domain \in Domains
    /\ callpc = "idle"
    /\ call = NoCall
    /\ checks = <<>>
    /\ connAttempts = 0
    /\ pc = "off"
    /\ scans = {}
    /\ results = <<>>
    /\ response = [status |-> 0]
    /\ invoked = {}
    /\ raised = "none"
    /\ tasks = <<>>
    /\ settled = <<>>
    /\ score = -1
    /\ report = [status |-> 0]

CallSsl ==
    /\ callpc = "idle"
    /\ \E net \in SslNets :
        /\ call' = [kind |-> "ssl", net |-> net]
        /\ checks' = check_ssl(domain, net)
        /\ connAttempts' = connAttempts + SslConnections(net)
    /\ callpc' = "returned"
    /\ UNCHANGED <<domain, orchVars, gatherVars, reportVars>>

CallPorts ==
    /\ callpc = "idle"
    /\ \E net \in PortNets :
        /\ call' = [kind |-> "ports", net |-> net]
        /\ checks' = scan_ports(domain, net)
    /\ callpc' = "returned"
    /\ UNCHANGED <<domain, connAttempts, orchVars, gatherVars, reportVars>>

CallSubdomains ==
    /\ callpc = "idle"
    /\ \E net \in SubdomainNets :
        /\ call' = [kind |-> "subdomains", net |-> net]
        /\ checks' = scan_subdomains(domain, net)
    /\ callpc' = "returned"
    /\ UNCHANGED <<domain, connAttempts, orchVars, gatherVars, reportVars>>

CallHeaders ==
    /\ callpc = "idle"
    /\ \E net \in HeaderNets :
        /\ call' = [kind |-> "headers", net |-> net]
        /\ checks' = check_headers("https://" \o domain, net)
    /\ callpc' = "returned"
    /\ UNCHANGED <<domain, connAttempts, orchVars, gatherVars, reportVars>>

CallNext == CallSsl \/ CallPorts \/ CallSubdomains \/ CallHeaders

SpecCall == CallInit /\ [][CallNext]_vars

(***************************************************************************)
(* The orchestrator: scan()  (main.py:91-138)                              *)
(*                                                                         *)
(* scan() awaits the requested schedulers one after the other inside one   *)
(* try block; each await is a step.  An await returns the scheduler's list *)
(* or raises: the schedulers turn every exception of their try blocks into *)
(* a Finding, so what reaches scan() is an exception raised outside them   *)
(* (in a handler while it builds its Finding, or by the print before the   *)
(* call).  scan() has one handler for it, `except Exception`, which turns  *)
(* it into HTTPException(400).                                             *)
(***************************************************************************)

\* request.scans is a list[str]: any strings are accepted
ScanNames == Kinds \cup {"whois"}

Clocks == {1767225600, 1767225601}

\* datetime.now().isoformat()
isoformat(now) == "T" \o ToString(now)

\* results[key] = value
Put(d, key, value) ==
    [k \in DOMAIN d \cup {key} |-> IF k = key THEN value ELSE d[k]]

NoResponse == [status |-> 0]

\* the networks a request of the orchestrator model meets: a few of each kind
OrchSslNets ==
    {net \in SslNets :
        \/ net.conn # "ok"
        \/ net.ctx # "ok"
        \/ /\ net.tz = 0
           /\ net.cipher = "TLS_AES_256_GCM_SHA384"
           /\ net.remaining \in {MaxDays * SecondsPerDay, SecondsPerDay,
                                 -SecondsPerDay}}

OrchPortNets ==
    {PortNet("none", open, "refused", "") :
        open \in {{}, {443}, {80}, {22, 80}, {22, 80, 443}}}
    \cup {PortNet("body", {}, "refused", "internal error")}

OrchSubdomainNets ==
    {SubdomainNet("none", found, "error", "") :
        found \in {{}, {"www"}, {"www", "dev"}}}
    \cup {SubdomainNet("body", {}, "error", "internal error")}

OrchHeaderNets ==
    {HeaderNet("ok", "ok", 200, ResponseHeaders(HeaderNames, "lower"), ""),
     HeaderNet("ok", "ok", 200, ResponseHeaders({}, "catalog"), ""),
     HeaderNet("ok", "ok", 404, ResponseHeaders({"X-Frame-Options"}, "catalog"), "")}
    \cup HeaderFailureNets

Init ==
    /\ pc = "start"
    /\ domain \in Domains
    /\ scans \in SUBSET ScanNames
    /\ results = <<>>
    /\ response = NoResponse
    /\ invoked = {}
    /\ raised = "none"
    /\ connAttempts = 0
    /\ call = NoCall
    /\ checks = <<>>
    /\ callpc = "idle"
    /\ tasks = <<>>
    /\ settled = <<>>
    /\ score = -1
    /\ report = NoResponse

callVars == <<call, checks, callpc>>

\* a handler that records the failure as a Finding and returns what it has
Reject_Partial(kind) ==
    /\ pc' = "done"
    /\ raised' = kind
    /\ invoked' = invoked \cup {kind}
    /\ results' = Put(results, kind,
                      <<Finding("Scan Failure", "fail", "Scanner Module",
                                "Scheduler failed.", "Unknown", "Review logs.",
                                "scheduler error")>>)
    /\ response' = [status |-> 200, body |-> results']
    /\ UNCHANGED <<domain, scans, connAttempts, callVars, gatherVars, reportVars>>

\* main.py:134-138: the handler of scan()
Reject(kind) ==
    /\ pc' = "rejected"
    /\ raised' = kind
    /\ invoked' = invoked \cup {kind}
    /\ response' = [status |-> 400, detail |-> "scheduler error"]
    /\ UNCHANGED <<domain, scans, results, connAttempts, callVars, gatherVars, reportVars>>

\* main.py:98-105
Begin ==
    /\ pc = "start"
    /\ \E now \in Clocks :
        results' = [k \in {"domain", "timestamp"} |->
                        IF k = "domain" THEN domain ELSE isoformat(now)]
    /\ pc' = "ssl"
    /\ UNCHANGED <<domain, scans, response, invoked, raised, connAttempts, callVars, gatherVars, reportVars>>

\* main.py:108-111
RunSsl ==
    /\ pc = "ssl"
    /\ \/ /\ "ssl" \notin scans
          /\ pc' = "ports"
          /\ UNCHANGED <<domain, scans, results, response, invoked, raised,
                         connAttempts, callVars, gatherVars, reportVars>>
       \/ /\ "ssl" \in scans
          /\ \E net \in OrchSslNets :
                /\ results' = Put(results, "ssl", check_ssl(domain, net))
                /\ connAttempts' = connAttempts + SslConnections(net)
          /\ invoked' = invoked \cup {"ssl"}
          /\ pc' = "ports"
          /\ UNCHANGED <<domain, scans, response, raised, callVars, gatherVars, reportVars>>
       \/ /\ "ssl" \in scans
          /\ Reject("ssl")

\* RunPorts storing its section under a misspelt key
RunPorts_WrongKey ==
    /\ pc = "ports"
    /\ \/ /\ "ports" \notin scans
          /\ pc' = "subdomains"
          /\ UNCHANGED <<domain, scans, results, response, invoked, raised,
                         connAttempts, callVars, gatherVars, reportVars>>
       \/ /\ "ports" \in scans
          /\ \E net \in OrchPortNets :
                results' = Put(results, "port", scan_ports(domain, net))
          /\ invoked' = invoked \cup {"ports"}
          /\ pc' = "subdomains"
          /\ UNCHANGED <<domain, scans, response, raised, connAttempts, callVars, gatherVars, reportVars>>
       \/ /\ "ports" \in scans
          /\ Reject("ports")

\* main.py:114-117
RunPorts ==
    /\ pc = "ports"
    /\ \/ /\ "ports" \notin scans
          /\ pc' = "subdomains"
          /\ UNCHANGED <<domain, scans, results, response, invoked, raised,
                         connAttempts, callVars, gatherVars, reportVars>>
       \/ /\ "ports" \in scans
          /\ \E net \in OrchPortNets :
                results' = Put(results, "ports", scan_ports(domain, net))
          /\ invoked' = invoked \cup {"ports"}
          /\ pc' = "subdomains"
          /\ UNCHANGED <<domain, scans, response, raised, connAttempts, callVars, gatherVars, reportVars>>
       \/ /\ "ports" \in scans
          /\ Reject("ports")

\* main.py:120-123
RunSubdomains ==
    /\ pc = "subdomains"
    /\ \/ /\ "subdomains" \notin scans
          /\ pc' = "headers"
          /\ UNCHANGED <<domain, scans, results, response, invoked, raised,
                         connAttempts, callVars, gatherVars, reportVars>>
       \/ /\ "subdomains" \in scans
          /\ \E net \in OrchSubdomainNets :
                results' = Put(results, "subdomains", scan_subdomains(domain, net))
          /\ invoked' = invoked \cup {"subdomains"}
          /\ pc' = "headers"
          /\ UNCHANGED <<domain, scans, response, raised, connAttempts, callVars, gatherVars, reportVars>>
       \/ /\ "subdomains" \in scans
          /\ Reject("subdomains")

\* main.py:126-132: the last section, then `return results`
RunHeaders ==
    /\ pc = "headers"
    /\ \/ /\ "headers" \notin scans
          /\ pc' = "done"
          /\ response' = [status |-> 200, body |-> results]
          /\ UNCHANGED <<domain, scans, results, invoked, raised,
                         connAttempts, callVars, gatherVars, reportVars>>
       \/ /\ "headers" \in scans
          /\ \E net \in OrchHeaderNets :
                /\ results' = Put(results, "headers",
                                  check_headers("https://" \o domain, net))
                /\ response' = [status |-> 200, body |-> results']
          /\ invoked' = invoked \cup {"headers"}
          /\ pc' = "done"
          /\ UNCHANGED <<domain, scans, raised, connAttempts, callVars, gatherVars, reportVars>>
       \/ /\ "headers" \in scans
          /\ Reject("headers")

\* report_generator.py:16-110: the names bound when the score section is
\* reached: the parameters, the locals assigned so far, the module's imports
BoundNames ==
    {"domain", "timestamp", "ssl_data", "headers_data", "ports_data",
     "subdomains_data", "pdf_buffer", "DARK_BLUE", "LIGHT_BLUE", "CYAN",
     "GREEN", "YELLOW", "RED", "WHITE", "DARK_GRAY", "doc", "styles",
     "title_style", "heading_style", "normal_style", "story", "info_data",
     "info_table", "letter", "A4", "getSampleStyleSheet", "ParagraphStyle",
     "inch", "HexColor", "SimpleDocTemplate", "Paragraph", "Spacer", "Table",
     "TableStyle", "PageBreak", "Image", "canvas", "colors", "BytesIO",
     "datetime", "List", "Dict"}

\* report_generator.py:113 and 138: the names the rest of the body reads
\* without assigning them, in the order it reads them
ReadNames == <<"score", "checks">>

NoSection == "None"

\* report_generator.py:16-248: what the call returns or raises.  Reading a
\* name that is not bound raises NameError; the four section arguments are
\* never read.
generate_pdf_report(dom, timestamp, ssl_data, headers_data, ports_data, subdomains_data) ==
    LET unbound == SelectSeq(ReadNames, LAMBDA n : n \notin BoundNames)
    IN  IF Len(unbound) > 0
        THEN [raises |-> "NameError",
              error |-> "name '" \o unbound[1] \o "' is not defined"]
        ELSE [raises |-> "none", bytes |-> "%PDF-1.4 " \o dom]

\* request.ssl, request.headers, ...: the section of the scan result, or None
Section(key) == IF key \in DOMAIN results THEN results[key] ELSE NoSection

\* main.py:140-172: POST /api/report with the result of the scan
GenerateReport ==
    /\ pc = "done"
    /\ report = NoResponse
    /\ LET out == generate_pdf_report(results["domain"], results["timestamp"],
                                      Section("ssl"), Section("headers"),
                                      Section("ports"), Section("subdomains"))
       IN  report' = IF out.raises = "none"
                     THEN [status |-> 200, body |-> out.bytes]
                     ELSE [status |-> 400, detail |-> out.error]
    /\ UNCHANGED <<pc, domain, scans, results, response, invoked, raised,
                   connAttempts, score, callVars, gatherVars>>

Next ==
    \/ Begin \/ RunSsl \/ RunPorts \/ RunSubdomains \/ RunHeaders
    \/ GenerateReport

Spec == Init /\ [][Next]_vars

(***************************************************************************)
(* Fan-out and join inside scan_ports and scan_subdomains: SpecGather      *)
(*                                                                         *)
(* Both schedulers create one task per catalog entry, await                *)
(* asyncio.gather over them with return_exceptions=True, and only then     *)
(* read the results, zipped with the catalog.  tasks[t] is the slot that   *)
(* gather keeps for the task of target t: "pending" until the probe ends,  *)
(* then its result.  The event loop ends the probes in any order: the      *)
(* probes that succeed end one at a time in every order, before or after   *)
(* the failing ones, whose timeouts were armed in the same loop iteration  *)
(* and which end together.  settled records the order in which the         *)
(* successes ended.                                                        *)
(***************************************************************************)

MaxRacing == 2       \* at most this many probes of one call succeed
RaceWindow == 25     \* the labels that may resolve: the first of the catalog

GatherDomains == {"example.com"}

RaceLabels == {COMMON_SUBDOMAINS[i] : i \in 1..RaceWindow}

GatherPortNets ==
    {PortNet("none", open, closedAs, "") :
        open \in SubsetsUpTo(Ports, MaxRacing),
        closedAs \in {"refused", "timeout", "exception"}}

GatherSubdomainNets ==
    {SubdomainNet("none", found, failAs, "") :
        found \in SubsetsUpTo(RaceLabels, MaxRacing),
        failAs \in {"timeout", "error"}}

\* what the task of target t returns (or the exception gather returns for it)
TaskResult(kind, net, t) ==
    IF kind = "ports" THEN check_port(net.probes[t])
    ELSE resolve_domain(net.probes[t])

Pending(t) == tasks[t] = "pending"

\* the open ports appended as the probes complete instead of after the join
GatheredOpenPorts_AsCompleted(gathered, completed) == completed

\* port_scanner.py:53-55: zip(COMMON_PORTS.items(), results)
GatheredOpenPorts(gathered, completed) ==
    SelectSeq(PortCatalog, LAMBDA p : IsTrue(gathered[p]))

\* subdomain_scanner.py:46-48: zip(subdomains_to_check, results)
GatheredSubdomains(dom, gathered, completed) ==
    MapSeq(LAMBDA sub : SubdomainName(sub, dom),
           SelectSeq(COMMON_SUBDOMAINS, LAMBDA sub : IsTrue(gathered[sub])))

GatherInit ==
    /\ domain \in GatherDomains
    /\ callpc = "idle"
    /\ call = NoCall
    /\ checks = <<>>
    /\ connAttempts = 0
    /\ pc = "off"
    /\ scans = {}
    /\ results = <<>>
    /\ response = [status |-> 0]
    /\ invoked = {}
    /\ raised = "none"
    /\ tasks = <<>>
    /\ settled = <<>>
    /\ score = -1
    /\ report = [status |-> 0]

\* port_scanner.py:50-51: the tasks are created and gather is awaited
FanOutPorts ==
    /\ callpc = "idle"
    /\ \E net \in GatherPortNets : call' = [kind |-> "ports", net |-> net]
    /\ tasks' = [p \in Ports |-> "pending"]
    /\ callpc' = "waiting"
    /\ UNCHANGED <<domain, connAttempts, checks, settled, orchVars, reportVars>>

\* subdomain_scanner.py:39-44
FanOutSubdomains ==
    /\ callpc = "idle"
    /\ \E net \in GatherSubdomainNets :
           call' = [kind |-> "subdomains", net |-> net]
    /\ tasks' = [sub \in Labels |-> "pending"]
    /\ callpc' = "waiting"
    /\ UNCHANGED <<domain, connAttempts, checks, settled, orchVars, reportVars>>

\* one probe that succeeds completes: its task returns True
SettleTrue ==
    /\ callpc = "waiting"
    /\ \E t \in DOMAIN tasks :
        /\ Pending(t)
        /\ IsTrue(TaskResult(call.kind, call.net, t))
        /\ tasks' = [tasks EXCEPT ![t] = "True"]
        /\ settled' = Append(settled, t)
    /\ UNCHANGED <<domain, connAttempts, call, checks, callpc, orchVars,
                   reportVars>>

\* SettleRest for probes awaited without wait_for: one that gets no answer
\* never completes
SettleRest_NoTimeout ==
    /\ callpc = "waiting"
    /\ {t \in DOMAIN tasks :
            /\ Pending(t)
            /\ ~IsTrue(TaskResult(call.kind, call.net, t))
            /\ call.net.probes[t] # "timeout"} # {}
    /\ tasks' = [t \in DOMAIN tasks |->
                    IF /\ Pending(t)
                       /\ ~IsTrue(TaskResult(call.kind, call.net, t))
                       /\ call.net.probes[t] # "timeout"
                    THEN TaskResult(call.kind, call.net, t) ELSE tasks[t]]
    /\ UNCHANGED <<domain, connAttempts, call, checks, callpc, settled,
                   orchVars, reportVars>>

\* the probes that fail complete: their tasks return False or an exception
SettleRest ==
    /\ callpc = "waiting"
    /\ {t \in DOMAIN tasks :
            Pending(t) /\ ~IsTrue(TaskResult(call.kind, call.net, t))} # {}
    /\ tasks' = [t \in DOMAIN tasks |->
                    IF Pending(t) /\ ~IsTrue(TaskResult(call.kind, call.net, t))
                    THEN TaskResult(call.kind, call.net, t) ELSE tasks[t]]
    /\ UNCHANGED <<domain, connAttempts, call, checks, callpc, settled,
                   orchVars, reportVars>>

\* JoinPorts returning as soon as one task is done, as asyncio.wait with
\* FIRST_COMPLETED would
JoinPorts_FirstCompleted ==
    /\ callpc = "waiting"
    /\ call.kind = "ports"
    /\ \E t \in DOMAIN tasks : ~Pending(t)
    /\ checks' = PortPolicy(GatheredOpenPorts(tasks, settled))
    /\ callpc' = "returned"
    /\ UNCHANGED <<domain, connAttempts, call, gatherVars, orchVars, reportVars>>

\* port_scanner.py:51-117: gather returns once no task is pending
JoinPorts ==
    /\ callpc = "waiting"
    /\ call.kind = "ports"
    /\ \A t \in DOMAIN tasks : ~Pending(t)
    /\ checks' = PortPolicy(GatheredOpenPorts(tasks, settled))
    /\ callpc' = "returned"
    /\ UNCHANGED <<domain, connAttempts, call, gatherVars, orchVars, reportVars>>

\* subdomain_scanner.py:44-103
JoinSubdomains ==
    /\ callpc = "waiting"
    /\ call.kind = "subdomains"
    /\ \A t \in DOMAIN tasks : ~Pending(t)
    /\ checks' = SubdomainPolicy(domain,
                                 GatheredSubdomains(domain, tasks, settled))
    /\ callpc' = "returned"
    /\ UNCHANGED <<domain, connAttempts, call, gatherVars, orchVars, reportVars>>

GatherNext ==
    \/ FanOutPorts \/ FanOutSubdomains
    \/ SettleTrue \/ SettleRest
    \/ JoinPorts \/ JoinSubdomains

SpecGather == GatherInit /\ [][GatherNext]_vars

(***************************************************************************)
(* A whole request down to its probes: SpecLive                            *)
(*                                                                         *)
(* scan() as in Spec, with the await of scan_ports and scan_subdomains     *)
(* unfolded into fan-out, the completion of the probes and the join.       *)
(* Every network operation carries a timeout (port_scanner.py:33 and 36,   *)
(* subdomain_scanner.py:25-28, ssl_checker.py:24, header_checker.py:53),   *)
(* so an operation that gets no answer ends as "timeout"; the event loop   *)
(* keeps taking steps while one is possible, which is the weak fairness of *)
(* LiveNext.                                                               *)
(***************************************************************************)

LivePortNets ==
    {PortNet("none", open, "timeout", "") : open \in {{}, {443}, {22, 443}}}

LiveSubdomainNets ==
    {SubdomainNet("none", found, "timeout", "") : found \in {{}, {"www", "dev"}}}

LiveInit ==
    /\ pc = "start"
    /\ domain \in GatherDomains
    /\ scans \in SUBSET Kinds
    /\ results = <<>>
    /\ response = NoResponse
    /\ invoked = {}
    /\ raised = "none"
    /\ connAttempts = 0
    /\ call = NoCall
    /\ checks = <<>>
    /\ callpc = "idle"
    /\ tasks = <<>>
    /\ settled = <<>>
    /\ score = -1
    /\ report = NoResponse

\* main.py:114: `if "ports" in request.scans` is false
LiveSkipPorts == "ports" \notin scans /\ RunPorts

\* main.py:116 entering scan_ports, port_scanner.py:50-51
LiveFanOutPorts ==
    /\ pc = "ports"
    /\ "ports" \in scans
    /\ FanOutPorts
    /\ call'.net \in LivePortNets

\* main.py:116-117: scan_ports has returned, its list is stored
LiveStorePorts ==
    /\ pc = "ports"
    /\ callpc = "returned"
    /\ results' = Put(results, "ports", checks)
    /\ invoked' = invoked \cup {"ports"}
    /\ pc' = "subdomains"
    /\ call' = NoCall
    /\ checks' = <<>>
    /\ callpc' = "idle"
    /\ tasks' = <<>>
    /\ settled' = <<>>
    /\ UNCHANGED <<domain, scans, response, raised, connAttempts, reportVars>>

\* main.py:120: `if "subdomains" in request.scans` is false
LiveSkipSubdomains == "subdomains" \notin scans /\ RunSubdomains

\* main.py:122 entering scan_subdomains, subdomain_scanner.py:39-44
LiveFanOutSubdomains ==
    /\ pc = "subdomains"
    /\ "subdomains" \in scans
    /\ FanOutSubdomains
    /\ call'.net \in LiveSubdomainNets

\* main.py:122-123
LiveStoreSubdomains ==
    /\ pc = "subdomains"
    /\ callpc = "returned"
    /\ results' = Put(results, "subdomains", checks)
    /\ invoked' = invoked \cup {"subdomains"}
    /\ pc' = "headers"
    /\ call' = NoCall
    /\ checks' = <<>>
    /\ callpc' = "idle"
    /\ tasks' = <<>>
    /\ settled' = <<>>
    /\ UNCHANGED <<domain, scans, response, raised, connAttempts, reportVars>>

LiveNext ==
    \/ Begin \/ RunSsl
    \/ LiveSkipPorts \/ LiveFanOutPorts \/ LiveStorePorts
    \/ LiveSkipSubdomains \/ LiveFanOutSubdomains \/ LiveStoreSubdomains
    \/ SettleTrue \/ SettleRest \/ JoinPorts \/ JoinSubdomains
    \/ RunHeaders

SpecLive == LiveInit /\ [][LiveNext]_vars /\ WF_vars(LiveNext)

(***************************************************************************)
(* Two requests on one event loop: SpecTwo                                 *)
(*                                                                         *)
(* The server runs every request handler on one asyncio event loop.  One   *)
(* request (pc, results, response) asks for the ssl kind; the other is     *)
(* inside scan_ports or scan_subdomains (call, tasks, checks).  check_ssl  *)
(* has no await: socket.create_connection and wrap_socket are blocking     *)
(* calls, so the loop runs nothing else until they return, at the latest   *)
(* when the socket timeout expires.  A probe of the other request that is  *)
(* pending all that time is past its own wait_for timeout when the loop    *)
(* runs again: wait_for cancels it and the probe returns False, whether or *)
(* not its target answered meanwhile.                                      *)
(***************************************************************************)

PORT_TIMEOUT == 1    \* check_port(host, port, timeout=1.0)
DNS_TIMEOUT == 2     \* wait_for(loop.getaddrinfo(...), timeout=2.0)
SSL_TIMEOUT == 5     \* socket.create_connection((domain, 443), timeout=5)

\* the seconds check_ssl holds the event loop: the whole socket timeout when
\* the connection gets no answer, less than any probe timeout otherwise
SecondsBlocked(net) ==
    IF net.ctx = "ok" /\ net.conn = "timeout" THEN SSL_TIMEOUT ELSE 0

ProbeTimeout(kind) == IF kind = "ports" THEN PORT_TIMEOUT ELSE DNS_TIMEOUT

\* the gathered tasks once the loop runs again after `blocked` seconds
Starved(blocked) ==
    IF callpc = "waiting" /\ blocked >= ProbeTimeout(call.kind)
    THEN [t \in DOMAIN tasks |-> IF Pending(t) THEN "False" ELSE tasks[t]]
    ELSE tasks

TwoInit == LiveInit /\ scans = {"ssl"}

\* main.py:108-111 on the shared loop
TwoRunSsl ==
    /\ pc = "ssl"
    /\ "ssl" \in scans
    /\ \/ /\ \E net \in OrchSslNets :
                /\ results' = Put(results, "ssl", check_ssl(domain, net))
                /\ connAttempts' = connAttempts + SslConnections(net)
                /\ tasks' = Starved(SecondsBlocked(net))
          /\ invoked' = invoked \cup {"ssl"}
          /\ pc' = "ports"
          /\ UNCHANGED <<domain, scans, response, raised, call, checks, callpc,
                         settled, reportVars>>
       \/ Reject("ssl")

\* main.py:114-132: none of the other kinds is requested; `return results`
TwoReturn ==
    /\ pc = "ports"
    /\ scans \cap {"ports", "subdomains", "headers"} = {}
    /\ pc' = "done"
    /\ response' = [status |-> 200, body |-> results]
    /\ UNCHANGED <<domain, scans, results, invoked, raised, connAttempts,
                   callVars, gatherVars, reportVars>>

\* the other request enters scan_ports
TwoFanOutPorts == FanOutPorts /\ call'.net \in LivePortNets

\* the other request enters scan_subdomains
TwoFanOutSubdomains == FanOutSubdomains /\ call'.net \in LiveSubdomainNets

TwoNext ==
    \/ Begin \/ TwoRunSsl \/ TwoReturn
    \/ TwoFanOutPorts \/ TwoFanOutSubdomains
    \/ SettleTrue \/ SettleRest \/ JoinPorts \/ JoinSubdomains

SpecTwo == TwoInit /\ [][TwoNext]_vars

(***************************************************************************)
(* calculate_score  (main.py:67-79): SpecScore                             *)
(*                                                                         *)
(* The function reads only the status of each check.  It is applied to a   *)
(* list of Findings, and applied again to that list with one more Finding  *)
(* appended.                                                               *)
(***************************************************************************)

MaxChecks == 12      \* lists of passes, then warnings, then fails: up to this long
MaxMixed == 3        \* lists in every order: up to this long

StatusValues == {"pass", "warning", "fail"}

\* a Finding of which only the status matters
ScoredFinding(status) ==
    Finding("Check", status, "Module", "A check.", "", "", "")

Repeat(x, n) == [i \in 1..n |-> x]

RECURSIVE ListsUpTo(_, _)
ListsUpTo(S, n) ==
    IF n = 0 THEN {<<>>}
    ELSE LET shorter == ListsUpTo(S, n - 1)
         IN  shorter \cup {Append(l, x) : l \in {m \in shorter : Len(m) = n - 1},
                                           x \in S}

ScoreInputs ==
    {MapSeq(ScoredFinding, Repeat("pass", p) \o Repeat("warning", w)
                           \o Repeat("fail", f)) :
        p \in 0..MaxChecks, w \in 0..MaxChecks, f \in 0..MaxChecks}
    \cup {MapSeq(ScoredFinding, l) : l \in ListsUpTo(StatusValues, MaxMixed)}

\* the loop of main.py:72-77
RECURSIVE Points(_)
Points(cs) ==
    IF Len(cs) = 0 THEN 0
    ELSE (IF cs[1].status = "pass" THEN 10
          ELSE IF cs[1].status = "warning" THEN 5
          ELSE 0) + Points(Tail(cs))

\* the points wrapped into 0..99 instead of capped at 100
calculate_score_Wrapped(cs) ==
    IF Len(cs) = 0 THEN 0 ELSE Points(cs) % 100

calculate_score(cs) ==
    IF Len(cs) = 0 THEN 0
    ELSE IF Points(cs) < 100 THEN Points(cs) ELSE 100

ScoreInit ==
    /\ checks \in ScoreInputs
    /\ Len(checks) <= MaxChecks
    /\ score = -1
    /\ callpc = "idle"
    /\ domain = "example.com"
    /\ call = NoCall
    /\ connAttempts = 0
    /\ pc = "off"
    /\ scans = {}
    /\ results = <<>>
    /\ response = [status |-> 0]
    /\ invoked = {}
    /\ raised = "none"
    /\ tasks = <<>>
    /\ settled = <<>>
    /\ report = [status |-> 0]

\* calculate_score(checks)
Score ==
    /\ callpc = "idle"
    /\ score' = calculate_score(checks)
    /\ callpc' = "scored"
    /\ UNCHANGED <<domain, connAttempts, call, checks, report, orchVars,
                   gatherVars>>

\* one more Finding is appended and the list is scored again
Rescore ==
    /\ callpc = "scored"
    /\ \E status \in StatusValues :
           checks' = Append(checks, ScoredFinding(status))
    /\ score' = calculate_score(checks')
    /\ callpc' = "rescored"
    /\ UNCHANGED <<domain, connAttempts, call, report, orchVars, gatherVars>>

ScoreNext == Score \/ Rescore

SpecScore == ScoreInit /\ [][ScoreNext]_vars

(***************************************************************************)
(* Properties                                                              *)
(***************************************************************************)

Names(cs) == MapSeq(LAMBDA c : c.name, cs)
Statuses(cs) == MapSeq(LAMBDA c : c.status, cs)
HasStatus(cs, status) == \E i \in 1..Len(cs) : cs[i].status = status
HasName(cs, name) == \E i \in 1..Len(cs) : cs[i].name = name

Returned(kind) == callpc = "returned" /\ call.kind = kind

\* the call met a failure that left nothing of its section to assess
Unassessed ==
    \/ call.kind = "ssl" /\ (call.net.ctx # "ok" \/ call.net.conn # "ok")
    \/ call.kind = "ports" /\ call.net.fault # "none"
    \/ call.kind = "subdomains" /\ call.net.fault # "none"
    \/ call.kind = "headers" /\ (call.net.session # "ok" \/ call.net.get # "ok")

\* the GET of check_headers failed with a TLS error or a non-timeout exception
HeaderGetWarned ==
    /\ call.kind = "headers"
    /\ call.net.session = "ok"
    /\ call.net.get \in {"sslerror", "error"}

\* C1 (as stated): every scheduler call returns at least one Finding, and a
\* call that could not assess its section returns a Finding with status fail.
C1_Original ==
    callpc = "returned" =>
        /\ Len(checks) >= 1
        /\ Unassessed => HasStatus(checks, "fail")

\* C1 (amended): every scheduler call returns at least one Finding; a call that
\* could not assess its section returns a Finding with status fail, except that
\* check_headers answers a TLS error or any other non-timeout exception of its
\* GET with a single warning Finding and no fail Finding.
C1_AtLeastOneFinding ==
    callpc = "returned" =>
        /\ Len(checks) >= 1
        /\ (Unassessed /\ ~HeaderGetWarned) => HasStatus(checks, "fail")
        /\ HeaderGetWarned => Statuses(checks) = <<"warning">>

C1_Witness ==
    /\ Returned("headers")
    /\ call.net.get = "error"
    /\ Statuses(checks) = <<"warning">>

\* C2: a request that is not rejected returns domain, timestamp and one section
\* per requested kind of {ssl, ports, subdomains, headers}, no other key; a
\* request ends in that complete result or in one rejection, and nothing is
\* returned before.
C2_CompleteResult ==
    /\ pc \notin {"done", "rejected"} => response = NoResponse
    /\ pc = "done" =>
        /\ response.status = 200
        /\ DOMAIN response.body = {"domain", "timestamp"} \cup (scans \cap Kinds)
        /\ response.body["domain"] = domain
        /\ \E now \in Clocks : response.body["timestamp"] = isoformat(now)
        /\ \A k \in scans \cap Kinds : Len(response.body[k]) >= 1
    /\ pc = "rejected" => response.status = 400 /\ DOMAIN response = {"status", "detail"}

C2_Witness ==
    /\ pc = "done"
    /\ scans = {"ports", "headers", "whois"}
    /\ DOMAIN response.body = {"domain", "timestamp", "ports", "headers"}

ModuleWheres ==
    {"SSL Module", "Port Scanner Module", "Subdomain Scanner Module", "Scanner Module"}

\* C3 (as stated): when the await of one requested scheduler raises, the
\* orchestrator still returns a ScanResult whose section for that scheduler is
\* one scheduler-level fail Finding and whose other requested sections are kept.
C3_Original ==
    (raised # "none" /\ pc \in {"done", "rejected"}) =>
        /\ response.status = 200
        /\ raised \in DOMAIN response.body
        /\ Statuses(response.body[raised]) = <<"fail">>
        /\ \A k \in (scans \cap Kinds) : k \in DOMAIN response.body

\* C3 (amended): an exception that escapes a scheduler ends the request in one
\* rejection (400) without a ScanResult, the computed sections being dropped
\* with it; a failure caught at a scheduler's own boundary leaves that section
\* with the scheduler's single fail Finding in a result that still has every
\* requested section, and a section once stored is never changed.
C3_EscapeRejectsCaughtIsolated ==
    /\ [](raised # "none" =>
            /\ pc = "rejected"
            /\ response.status = 400
            /\ "body" \notin DOMAIN response)
    /\ [](pc = "done" =>
            \A k \in (scans \cap Kinds) :
                /\ k \in DOMAIN response.body
                /\ HasStatus(response.body[k], "fail")
                   /\ response.body[k][1].where \in ModuleWheres
                   => Statuses(response.body[k]) = <<"fail">>)
    /\ [][\A k \in DOMAIN results :
            k \in DOMAIN results' /\ results'[k] = results[k]]_vars

C3_Witness ==
    /\ pc = "rejected"
    /\ raised = "headers"
    /\ {"ssl", "ports"} \subseteq DOMAIN results
    /\ response.status = 400

\* C4: a request with the empty domain is rejected before any probe: no
\* scheduler is invoked, no section is produced and no result is returned.
C4_EmptyDomainRejected ==
    domain = "" =>
        /\ invoked = {}
        /\ DOMAIN results \cap Kinds = {}
        /\ response.status # 200

SslConnFailed ==
    /\ Returned("ssl")
    /\ call.net.ctx = "ok"
    /\ call.net.conn \in {"timeout", "sslerror", "error"}

\* C5: for each way the connection attempt of check_ssl can fail (timeout, TLS
\* error, any other exception) the call returns exactly one Finding, of status
\* fail and of that failure's category, after exactly one connection attempt;
\* no call makes more than one attempt.
C5_SslFailureOneFinding ==
    /\ Returned("ssl") => connAttempts <= 1
    /\ SslConnFailed =>
        /\ Len(checks) = 1
        /\ checks[1].status = "fail"
        /\ checks[1].name =
              (IF call.net.conn = "timeout" THEN "HTTPS Connectivity"
               ELSE IF call.net.conn = "sslerror" THEN "SSL Handshake Error"
               ELSE "SSL Verification Failure")
        /\ connAttempts = 1

C5_Witness ==
    /\ SslConnFailed
    /\ call.net.conn = "error"
    /\ Names(checks) = <<"SSL Verification Failure">>
    /\ connAttempts = 1

SslSucceeded ==
    /\ Returned("ssl")
    /\ call.net.ctx = "ok"
    /\ call.net.conn = "ok"

\* the status of the Finding named "Certificate Expiration", "" without one
ExpiryStatus ==
    IF HasName(checks, "Certificate Expiration")
    THEN checks[CHOOSE i \in 1..Len(checks) :
                    checks[i].name = "Certificate Expiration"].status
    ELSE ""

ExpiryDetails ==
    checks[CHOOSE i \in 1..Len(checks) :
               checks[i].name = "Certificate Expiration"].details

\* C6 (as stated): exactly 30 days remaining gives pass, 30 days minus one
\* second gives warning, nothing or less remaining gives fail (server clock on
\* UTC).
C6_Original ==
    (SslSucceeded /\ call.net.tz = 0) =>
        /\ call.net.remaining = 30 * SecondsPerDay => ExpiryStatus = "pass"
        /\ call.net.remaining = 30 * SecondsPerDay - 1 => ExpiryStatus = "warning"
        /\ call.net.remaining <= 0 => ExpiryStatus = "fail"

\* C6 (amended): exactly 30 days remaining gives warning (pass needs a day
\* count above 30), 30 days minus one second gives warning, nothing or less
\* remaining gives fail.
C6_ExpiryBoundaries ==
    SslSucceeded =>
        /\ call.net.remaining = 30 * SecondsPerDay => ExpiryStatus = "warning"
        /\ call.net.remaining = 30 * SecondsPerDay - 1 => ExpiryStatus = "warning"
        /\ call.net.remaining <= 0 => ExpiryStatus = "fail"

C6_Witness ==
    /\ SslSucceeded
    /\ call.net.remaining = 30 * SecondsPerDay
    /\ call.net.tz = 0
    /\ ExpiryStatus = "warning"
    /\ ExpiryDetails = "Expires in 30 days"

\* C7: with the server clock on UTC, the expiry Finding is pass when more than
\* 30 whole days remain, warning when the certificate has not expired and at
\* most 30 whole days remain (less than one day included), and fail only when
\* the certificate has expired.
C7_ExpiryPolicy ==
    (SslSucceeded /\ call.net.tz = 0) =>
        LET remaining == call.net.remaining
            days == remaining \div SecondsPerDay
        IN  /\ days > 30 => ExpiryStatus = "pass"
            /\ (remaining > 0 /\ days <= 30) => ExpiryStatus = "warning"
            /\ ExpiryStatus = "fail" => remaining <= 0

\* C8: a successful handshake yields exactly three Findings, in the order
\* certificate presence (pass, naming the issuer), certificate expiration,
\* negotiated cipher (pass, naming the cipher).
C8_ThreeFindingsOnSuccess ==
    SslSucceeded =>
        /\ Names(checks) = <<"SSL Certificate Presence", "Certificate Expiration",
                             "TLS Cipher Strength">>
        /\ checks[1].status = "pass"
        /\ checks[1].details = "Issuer: " \o call.net.cert.issuer
        /\ checks[2].status \in {"pass", "warning", "fail"}
        /\ checks[3].status = "pass"
        /\ checks[3].details = "Cipher: " \o call.net.cipher

C8_Witness ==
    /\ SslSucceeded
    /\ call.net.cipher = "ECDHE-RSA-AES128-GCM-SHA256"
    /\ call.net.remaining < 0
    /\ Statuses(checks) = <<"pass", "fail", "pass">>

\* the set O of open ports of a port scan
OpenSet == {p \in Ports : call.net.probes[p] = "open"}

PortScanned == Returned("ports") /\ call.net.fault = "none"

\* the ports of O outside {80, 443} in catalog order, and the text listing them
UnexpectedInCatalogOrder(O) ==
    SelectSeq(PortCatalog, LAMBDA p : p \in O /\ p # 80 /\ p # 443)

UnexpectedText(O) ==
    LET ps == UnexpectedInCatalogOrder(O)
        index(p) == CHOOSE i \in 1..Len(PortCatalog) : PortCatalog[i] = p
    IN  "Ports: " \o Join(MapSeq(ToString, ps))
        \o " (" \o Join(MapSeq(LAMBDA p : PortNames[index(p)], ps)) \o ")"

\* C9: scan_ports returns exactly the Findings of the policy, in its order:
\* for no open port the single pass 'Port Exposure'; otherwise the warning
\* 'Unexpected Open Ports' iff a port outside {80, 443} is open (its details
\* list those ports in catalog order with their service names), then the
\* warning 'HTTPS Not Enabled' iff 80 is open and 443 is not, then the pass
\* 'HTTPS Support' iff 443 is open.
C9_PortPolicy ==
    PortScanned =>
        LET O == OpenSet
            expectedNames ==
                IF O = {} THEN <<"Port Exposure">>
                ELSE (IF O \ {80, 443} # {}
                      THEN <<"Unexpected Open Ports">> ELSE <<>>)
                     \o (IF 80 \in O /\ 443 \notin O
                         THEN <<"HTTPS Not Enabled">> ELSE <<>>)
                     \o (IF 443 \in O THEN <<"HTTPS Support">> ELSE <<>>)
        IN  /\ Names(checks) = expectedNames
            /\ \A i \in 1..Len(checks) :
                 /\ checks[i].status =
                       (IF checks[i].name \in {"Port Exposure", "HTTPS Support"}
                        THEN "pass" ELSE "warning")
                 /\ checks[i].name = "Unexpected Open Ports"
                       => checks[i].details = UnexpectedText(O)

C9_Witness ==
    /\ PortScanned
    /\ OpenSet = {22, 80, 8443}
    /\ Names(checks) = <<"Unexpected Open Ports", "HTTPS Not Enabled">>
    /\ checks[1].details = "Ports: 22, 8443 (SSH, HTTPS-Alt)"

AllThreePortFindings(cs) ==
    /\ HasName(cs, "Unexpected Open Ports")
    /\ HasName(cs, "HTTPS Not Enabled")
    /\ HasName(cs, "HTTPS Support")

\* C10 (as stated): some set of open ports makes scan_ports emit the
\* unexpected-ports warning, the HTTPS-not-enabled warning and the
\* HTTPS-support pass together.
C10_Original ==
    callpc = "idle" =>
        \E net \in PortNets : AllThreePortFindings(scan_ports(domain, net))

\* C10 (amended): the unexpected-ports warning can fire together with either
\* HTTPS judgment, but HTTPS-not-enabled and HTTPS-support exclude each other:
\* no set of open ports makes scan_ports emit all three Findings, and a scan
\* emits at most two.
C10_AtMostTwoJudgments ==
    /\ callpc = "idle" =>
        /\ \E net \in PortNets :
             Names(scan_ports(domain, net))
                = <<"Unexpected Open Ports", "HTTPS Not Enabled">>
        /\ \E net \in PortNets :
             Names(scan_ports(domain, net))
                = <<"Unexpected Open Ports", "HTTPS Support">>
    /\ PortScanned =>
        /\ ~(HasName(checks, "HTTPS Not Enabled") /\ HasName(checks, "HTTPS Support"))
        /\ ~AllThreePortFindings(checks)
        /\ Len(checks) <= 2

C10_Witness ==
    /\ PortScanned
    /\ OpenSet = {22, 80, 443}
    /\ Names(checks) = <<"Unexpected Open Ports", "HTTPS Support">>

\* C11: the list scan_ports (scan_subdomains) returns is the one determined by
\* which probes succeeded, whatever the order in which the probes completed.
C11_OrderIndependent ==
    callpc = "returned" /\ DOMAIN tasks # {} =>
        checks = IF call.kind = "ports" THEN scan_ports(domain, call.net)
                 ELSE scan_subdomains(domain, call.net)

\* two unexpected ports open, the later one of the catalog answering first
C11_Witness ==
    /\ callpc = "returned"
    /\ call.kind = "ports"
    /\ settled = <<8443, 22>>
    /\ checks[1].details = "Ports: 22, 8443 (SSH, HTTPS-Alt)"

SubdomainsScanned == Returned("subdomains") /\ call.net.fault = "none"

\* the catalog labels that resolved, and their names in catalog order
Resolved == {sub \in Labels : call.net.probes[sub] = "resolved"}

ResolvedNames ==
    MapSeq(LAMBDA sub : sub \o "." \o domain,
           SelectSeq(COMMON_SUBDOMAINS,
                     LAMBDA sub : call.net.probes[sub] = "resolved"))

Prefix(s, n) == SubSeq(s, 1, IF Len(s) < n THEN Len(s) ELSE n)

CountNamed(cs, name) == Cardinality({i \in 1..Len(cs) : cs[i].name = name})

\* C12: when a catalog subdomain resolves there is exactly one 'Subdomain
\* Discovery' Finding, warning iff a resolved label is not www, mail or ftp
\* and pass otherwise, whose details list the first five resolved names in
\* catalog order; when none resolves the list is the single pass Finding
\* 'Subdomain Enumeration'.
C12_Discovery ==
    SubdomainsScanned =>
        IF Resolved = {}
        THEN /\ Names(checks) = <<"Subdomain Enumeration">>
             /\ Statuses(checks) = <<"pass">>
        ELSE /\ CountNamed(checks, "Subdomain Discovery") = 1
             /\ checks[1].name = "Subdomain Discovery"
             /\ checks[1].status =
                    IF Resolved \subseteq {"www", "mail", "ftp"}
                    THEN "pass" ELSE "warning"
             /\ checks[1].details =
                    "Found: " \o Join(Prefix(ResolvedNames, 5))
                    \o (IF Cardinality(Resolved) > 5 THEN "..." ELSE "")
             /\ ~HasName(checks, "Subdomain Enumeration")

\* more than five labels resolve, the sixth of them outside the catalog prefix
C12_Witness ==
    /\ SubdomainsScanned
    /\ domain = "example.com"
    /\ Cardinality(Resolved) = 6
    /\ "api" \in Resolved
    /\ checks[1].status = "warning"

MarkedNames ==
    SelectSeq(ResolvedNames,
              LAMBDA s : \/ Contains(s, "dev") \/ Contains(s, "staging")
                         \/ Contains(s, "test") \/ Contains(s, "beta"))

\* C13: when a resolved name contains dev, staging, test or beta, the list is
\* the discovery Finding followed by one warning 'Development Environment
\* Exposure' naming exactly those names, whatever the discovery status; when
\* no resolved name contains a marker there is no such Finding.
C13_DevExposure ==
    SubdomainsScanned =>
        IF MarkedNames # <<>>
        THEN /\ Names(checks) = <<"Subdomain Discovery",
                                  "Development Environment Exposure">>
             /\ checks[2].status = "warning"
             /\ checks[2].details = "Found: " \o Join(MarkedNames)
        ELSE ~HasName(checks, "Development Environment Exposure")

\* the exposure warning next to a passing discovery: only www resolves, under
\* a domain whose own name holds a marker
C13_Witness ==
    /\ SubdomainsScanned
    /\ Resolved = {"www"}
    /\ Statuses(checks) = <<"pass", "warning">>
    /\ checks[2].details = "Found: www.example.test"

\* the two Findings of the claim's example: only www and dev resolve
C13_WwwAndDev ==
    /\ SubdomainsScanned
    /\ domain = "example.com"
    /\ Resolved = {"www", "dev"}
    /\ Statuses(checks) = <<"warning", "warning">>
    /\ checks[2].details = "Found: dev.example.com"

HeadersFetched ==
    Returned("headers") /\ call.net.session = "ok" /\ call.net.get = "ok"

\* the response carries header h under some spelling; its first value
Sent(h) ==
    \E j \in 1..Len(call.net.headers) : lower(call.net.headers[j][1]) = lower(h)

SentValue(h) ==
    LET js == {j \in 1..Len(call.net.headers) :
                   lower(call.net.headers[j][1]) = lower(h)}
    IN  call.net.headers[CHOOSE j \in js : \A k \in js : j <= k][2]

HeaderCount == Len(SECURITY_HEADERS)

\* C14: after a successful response the first six Findings are one per
\* catalog header, in catalog order: pass with the header's value in details
\* iff the response has the header under any spelling, otherwise fail with
\* the table's risk and mitigation.
C14_HeaderFindings ==
    HeadersFetched =>
        /\ Len(checks) = HeaderCount + 1
        /\ \A i \in 1..HeaderCount :
            LET h == SECURITY_HEADERS[i][1] IN
            IF Sent(h)
            THEN /\ checks[i].name = h \o " Header"
                 /\ checks[i].status = "pass"
                 /\ checks[i].details = "Header value: " \o SentValue(h)
            ELSE /\ checks[i].name = h \o " Header Missing"
                 /\ checks[i].status = "fail"
                 /\ checks[i].risk = SECURITY_HEADERS[i][3]
                 /\ checks[i].mitigation = SECURITY_HEADERS[i][4]

\* a response with lower-case header names, one catalog header among them
C14_Witness ==
    /\ HeadersFetched
    /\ \E j \in 1..Len(call.net.headers) :
           call.net.headers[j] = <<"x-frame-options", "DENY">>
    /\ checks[3].status = "pass"
    /\ checks[3].details = "Header value: DENY"
    /\ checks[1].status = "fail"

\* the six fail Findings of a response without any catalog header
C14_NoneSent ==
    /\ HeadersFetched
    /\ Len(call.net.headers) = 1
    /\ \A i \in 1..HeaderCount : checks[i].status = "fail"

\* C15: after the six header Findings comes exactly one status Finding: pass
\* iff the status is 200, warning iff it is in 300..399, fail otherwise.
C15_StatusFinding ==
    HeadersFetched =>
        LET st == call.net.status
            last == checks[Len(checks)]
        IN  /\ Len(checks) = HeaderCount + 1
            /\ last.where = "HTTP Response"
            /\ \A i \in 1..HeaderCount : checks[i].where # "HTTP Response"
            /\ last.status = "pass" <=> st = 200
            /\ last.status = "warning" <=> (300 <= st /\ st <= 399)
            /\ last.status = "fail" <=> (st # 200 /\ ~(300 <= st /\ st <= 399))

\* a 2xx status other than 200
C15_Witness ==
    /\ HeadersFetched
    /\ call.net.status = 204
    /\ checks[HeaderCount + 1].name = "Website Accessibility Issue"
    /\ checks[HeaderCount + 1].status = "fail"

\* C16: when the GET fails, check_headers returns one Finding and nothing
\* else: warning for a TLS error, fail for a timeout, warning for any other
\* exception.
C16_GetFailureOneFinding ==
    Returned("headers") /\ call.net.session = "ok" /\ call.net.get # "ok" =>
        /\ Len(checks) = 1
        /\ checks[1].status =
               IF call.net.get = "timeout" THEN "fail" ELSE "warning"
        /\ checks[1].where \notin {"HTTP Response Headers", "HTTP Response"}

C16_Witness ==
    /\ Returned("headers")
    /\ call.net.get = "timeout"
    /\ Names(checks) = <<"Header Check Timeout">>
    /\ Statuses(checks) = <<"fail">>

Scored == callpc \in {"scored", "rescored"}

CountStatus(cs, status) ==
    Cardinality({i \in 1..Len(cs) : cs[i].status = status})

\* round(x) of Python for x = num / den, den > 0: halves go to the even side
Round(num, den) ==
    LET q == num \div den
        r == num % den
    IN  IF 2 * r < den THEN q
        ELSE IF 2 * r > den THEN q + 1
        ELSE IF q % 2 = 0 THEN q ELSE q + 1

\* C17: the score is round(100 * passCount / max(1, totalCount)), the
\* share of passing Findings in percent, and lies in 0..100.
C17_PassRatioScore ==
    Scored =>
        /\ score = Round(100 * CountStatus(checks, "pass"),
                         IF Len(checks) = 0 THEN 1 ELSE Len(checks))
        /\ score \in 0..100

\* what calculate_score returns instead: 10 points for each pass plus 5 for
\* each warning, capped at 100
ScoreIsWeighted ==
    Scored =>
        LET points == 10 * CountStatus(checks, "pass")
                      + 5 * CountStatus(checks, "warning")
        IN  /\ score = IF points > 100 THEN 100 ELSE points
            /\ score \in 0..100

\* passes and warnings together worth more than the cap
ScoreCapped ==
    /\ Scored
    /\ CountStatus(checks, "pass") = 9
    /\ CountStatus(checks, "warning") = 3
    /\ CountStatus(checks, "fail") = 0
    /\ score = 100

\* C18: scoring a list again after one pass Finding was appended to it never
\* gives less than before.
C18_Monotone ==
    [][/\ callpc = "scored"
       /\ checks' = Append(checks, ScoredFinding("pass"))
       => score' >= score]_vars

\* a pass appended to nine passes and a fail: the score rose from 90 to 100
C18_Witness ==
    /\ callpc = "rescored"
    /\ Statuses(checks) = Repeat("pass", 9) \o <<"fail", "pass">>
    /\ score = 100

\* C19: generate_pdf_report returns a byte sequence for every domain,
\* timestamp and combination of sections, so every report request is
\* answered with the document.
C19_ReportReturnsBytes ==
    report # NoResponse => report.status = 200 /\ "body" \in DOMAIN report

\* what every report request is answered with
ReportAlwaysRejected ==
    report # NoResponse =>
        report = [status |-> 400, detail |-> "name 'score' is not defined"]

\* C20: every Finding a scheduler returns, on every path, has a non-empty
\* name, a non-empty description and a status among pass, warning and fail.
C20_WellFormedFindings ==
    callpc = "returned" =>
        \A i \in 1..Len(checks) :
            /\ checks[i].name # ""
            /\ checks[i].description # ""
            /\ checks[i].status \in {"pass", "warning", "fail"}

\* an error path whose Finding has empty details
C20_Witness ==
    /\ Returned("headers")
    /\ call.net.get = "timeout"
    /\ call.net.err = ""
    /\ Len(checks) = 1
    /\ checks[1].name # ""

\* C21: every probe of the catalog has been started when the scheduler
\* waits, and no Finding exists (the policy has not been evaluated) while a
\* probe of the call is still pending.
C21_FanOutThenJoinAll ==
    /\ callpc \in {"waiting", "returned"} /\ call.kind \in {"ports", "subdomains"}
           /\ DOMAIN tasks # {} =>
           DOMAIN tasks = IF call.kind = "ports" THEN Ports ELSE Labels
    /\ (\E t \in DOMAIN tasks : Pending(t)) => checks = <<>> /\ callpc = "waiting"

\* one probe has answered, another one that will answer is still pending
C21_Witness ==
    /\ callpc = "waiting"
    /\ call.kind = "ports"
    /\ tasks[443] = "True"
    /\ Pending(22)
    /\ call.net.probes[22] = "open"
    /\ checks = <<>>

\* C22: a probe that is refused, times out or fails with any error, an
\* unexpected exception included, counts as closed / not found for its own
\* target only: the scheduler returns no failure Finding and exactly the list
\* it returns when every failing probe is plainly refused (or not found).
C22_ProbeFailureIsolated ==
    /\ Returned("ports") /\ call.net.fault = "none" =>
        /\ ~HasStatus(checks, "fail")
        /\ ~HasName(checks, "Port Scan Failure")
        /\ checks = scan_ports(domain,
                               PortNet("none",
                                       {p \in Ports : call.net.probes[p] = "open"},
                                       "refused", ""))
    /\ Returned("subdomains") /\ call.net.fault = "none" =>
        /\ ~HasStatus(checks, "fail")
        /\ ~HasName(checks, "Subdomain Scan Failure")
        /\ checks = scan_subdomains(domain,
                                    SubdomainNet("none", Resolved, "error", ""))

\* one probe raises an exception check_port does not catch, its neighbour is
\* refused, and 443 is open
C22_Witness ==
    /\ Returned("ports")
    /\ call.net.probes[22] = "exception"
    /\ call.net.probes[21] = "refused"
    /\ call.net.probes[443] = "open"
    /\ Names(checks) = <<"HTTPS Support">>

Answered == pc \in {"done", "rejected"} /\ response # NoResponse

\* C23: every request is answered: each probe settles (by its answer or by
\* its timeout), each scheduler that waits on its probes returns, and scan()
\* reaches its return or its rejection.
C23_EventuallyReturns ==
    /\ <>Answered
    /\ (callpc = "waiting") ~> (callpc = "returned")
    /\ [](Answered => \A t \in DOMAIN tasks : ~Pending(t))

\* a request for all four kinds answered although every operation timed out
C23_Witness ==
    /\ pc = "done"
    /\ scans = Kinds
    /\ Names(results["ssl"]) = <<"HTTPS Connectivity">>
    /\ Names(results["ports"]) = <<"Port Exposure">>
    /\ Names(results["subdomains"]) = <<"Subdomain Enumeration">>
    /\ Names(results["headers"]) = <<"Header Check Timeout">>

\* what the call returns when its request is the only one on the loop
AloneResult ==
    IF call.kind = "ports" THEN scan_ports(domain, call.net)
    ELSE scan_subdomains(domain, call.net)

\* C24: requests handled concurrently do not interfere: under every
\* interleaving each one returns what it returns when run alone, with only
\* its own requested kinds.
C24_NoInterference ==
    /\ callpc = "returned" => checks = AloneResult
    /\ pc = "done" => DOMAIN results = {"domain", "timestamp"} \cup scans

\* the two requests share no data: the result of the call differs from its
\* result alone only when the other request's check_ssl held the loop for a
\* whole socket timeout while the call's probes were pending
C24_OnlyBlockingInterferes ==
    callpc = "returned" /\ checks # AloneResult =>
        /\ "ssl" \in DOMAIN results
        /\ Names(results["ssl"]) = <<"HTTPS Connectivity">>
        /\ \E t \in DOMAIN tasks : tasks[t] = "False" /\ call.net.probes[t] \in {"open", "resolved"}

====
